---- MODULE Spec2Model ----
(***************************************************************************)
(* Model of the Threads downloader relay (src/main.py): the /download      *)
(* handler (identifier normalization, outbound fetch under the tenacity    *)
(* retry policy, HTML extraction, response shaping, release of the         *)
(* per-request httpx client) and the /health handler.                      *)
(*                                                                         *)
(* Strings the code inspects character by character (the url_or_id query   *)
(* parameter, the thread id) are sequences of characters; a character is a *)
(* one-character string or, for a code point that has no spelling in a     *)
(* string literal here, its name "U+XXXX".                                 *)
(***************************************************************************)
EXTENDS Integers, Sequences, FiniteSets, TLC

VARIABLES
    env,        \* the scenario: which callers' inputs, upstream pages and failures occur
    pc,         \* pc[r]: position of request r inside download_thread
    input,      \* input[r]: the url_or_id query parameter of request r
    thread_id,  \* thread_id[r]: the local thread_id of download_thread
    client,     \* client[r]: id of the httpx.AsyncClient request r created (0: none)
    results,    \* results[r]: outcome of each outbound GET of request r, in order
    waits,      \* waits[r]: seconds slept by the retry wrapper between attempts
    content,    \* content[r]: the page returned by a successful fetch_url
    result,     \* result[r]: what download_thread returns or raises
    response,   \* response[r]: the HTTP response delivered to the caller
    owner,      \* owner[c]: the request that constructed client c
    open,       \* ids of the clients that are open (entered, not yet closed)
    sent,       \* sent[r]: for each GET request r issued, the id of the client it went through
    healthResp  \* the last /health response

vars == <<env, pc, input, thread_id, client, results, waits, content, result,
          response, owner, open, sent, healthResp>>

----------------------------------------------------------------------------
(* Bounds of the model *)

NumReq == 2        \* concurrent /download requests
MaxFrags == 4      \* fragments concatenated into an input string
MaxItems == 2      \* download_item elements in an upstream page

Requests == 1..NumReq

(* Program constants *)

StopAfterAttempt == 3   \* stop_after_attempt(3)
WaitMultiplier == 1     \* wait_exponential(multiplier=1, ...)
WaitMin == 4            \* wait_exponential(min=4, ...)
WaitMax == 10           \* wait_exponential(max=10)
ExpBase == 2            \* tenacity's default exp_base

HTTP_200_OK == 200
HTTP_400_BAD_REQUEST == 400
HTTP_404_NOT_FOUND == 404
HTTP_500_INTERNAL_SERVER_ERROR == 500

None == <<"None">>      \* Python's None where a string (a sequence) is expected

----------------------------------------------------------------------------
(* Strings *)

Lower == {"a","b","c","d","e","f","g","h","i","j","k","l","m",
          "n","o","p","q","r","s","t","u","v","w","x","y","z"}
Upper == {"A","B","C","D","E","F","G","H","I","J","K","L","M",
          "N","O","P","Q","R","S","T","U","V","W","X","Y","Z"}
Digit == {"0","1","2","3","4","5","6","7","8","9"}

\* the character class [A-Za-z0-9_-] of ID_PATTERN
TokenChars == Lower \cup Upper \cup Digit \cup {"_", "-"}

\* the 29 code points str.strip() removes (those with str.isspace()):
\* U+0009-U+000D, U+001C-U+001F, U+0020, U+0085, U+00A0, U+1680,
\* U+2000-U+200A, U+2028, U+2029, U+202F, U+205F, U+3000
Whitespace ==
    {"\t", "\n", "U+000B", "\f", "\r", "U+001C", "U+001D", "U+001E", "U+001F", " ",
     "U+0085", "U+00A0", "U+1680",
     "U+2000", "U+2001", "U+2002", "U+2003", "U+2004", "U+2005", "U+2006", "U+2007",
     "U+2008", "U+2009", "U+200A",
     "U+2028", "U+2029", "U+202F", "U+205F", "U+3000"}

HttpPrefix == <<"h","t","t","p",":","/","/">>
HttpsPrefix == <<"h","t","t","p","s",":","/","/">>
PostLiteral == <<"/","p","o","s","t","/">>

\* s.startswith(p)
StartsWith(s, p) == Len(s) >= Len(p) /\ SubSeq(s, 1, Len(p)) = p

\* end of the greedy run [A-Za-z0-9_-]* that starts at position j
RECURSIVE TokenEnd(_, _)
TokenEnd(s, j) ==
    IF j <= Len(s) /\ s[j] \in TokenChars THEN TokenEnd(s, j + 1) ELSE j - 1

\* the pattern /post/([A-Za-z0-9_-]+) tried at position i: group(1), or None
MatchAt(s, i) ==
    LET j == i + Len(PostLiteral)
    IN  IF /\ j - 1 <= Len(s)
           /\ SubSeq(s, i, j - 1) = PostLiteral
           /\ TokenEnd(s, j) >= j
        THEN SubSeq(s, j, TokenEnd(s, j))
        ELSE None

\* ID_PATTERN.search(s): the match at the leftmost position that has one
RECURSIVE SearchFrom(_, _)
SearchFrom(s, i) ==
    IF i > Len(s) THEN None
    ELSE IF MatchAt(s, i) # None THEN MatchAt(s, i)
    ELSE SearchFrom(s, i + 1)

ID_PATTERN_search(s) == SearchFrom(s, 1)

RECURSIVE lstrip(_)
lstrip(s) == IF s # <<>> /\ Head(s) \in Whitespace THEN lstrip(Tail(s)) ELSE s

RECURSIVE rstrip(_)
rstrip(s) ==
    IF s # <<>> /\ s[Len(s)] \in Whitespace THEN rstrip(SubSeq(s, 1, Len(s) - 1)) ELSE s

\* str.strip()
strip(s) == rstrip(lstrip(s))

extract_thread_id_nostrip(url_or_id) ==
    IF url_or_id = <<>> THEN None
    ELSE IF StartsWith(url_or_id, HttpPrefix) \/ StartsWith(url_or_id, HttpsPrefix)
         THEN ID_PATTERN_search(url_or_id)
         ELSE url_or_id

\* extract_thread_id (src/main.py:78-87)
extract_thread_id(url_or_id) ==
    IF url_or_id = <<>> THEN None
    ELSE IF StartsWith(url_or_id, HttpPrefix) \/ StartsWith(url_or_id, HttpsPrefix)
         THEN ID_PATTERN_search(url_or_id)
         ELSE strip(url_or_id)

\* line 102, "not thread_id": None and the empty string are both falsy
Falsy_none_only(v) == v = None
Falsy(v) == v = None \/ v = <<>>

----------------------------------------------------------------------------
(* The upstream page, as far as download_thread looks at it *)

Missing == "<missing>"          \* an element the page does not have
NoProfileDiv == "<no profile div>"  \* the item has no div.download__item__profile_pic
NoImg == "<no img>"             \* the profile div has no img
NoSrc == "<img, no src>"        \* the profile div's img has no src attribute
NoAnchor == "<no anchor>"       \* the item has no a.btn.download__item__info__actions__button
NoHref == "<anchor, no href>"   \* the item's download anchor has no href attribute

\* A page is [wrapper |-> whether div.download__wrapper exists,
\*            items   |-> the div.download_item elements inside it, in document order]
\* and an item is [avatar   |-> src of the img in div.download__item__profile_pic,
\*                 username |-> text of the span in div.download__item__profile_pic,
\*                 caption  |-> text of div.download__item__caption__text,
\*                 href     |-> href of the item's download anchor],
\* each of them Missing when the page lacks it (avatar: NoProfileDiv, NoImg or
\* NoSrc; href: NoAnchor or NoHref).

\* what a handler produces: a returned value or a raised exception
Return(v) == [kind |-> "return", exc |-> "", status |-> HTTP_200_OK, detail |-> "", value |-> v]
Raise(e) == [kind |-> "raise", exc |-> e, status |-> 0, detail |-> "", value |-> <<>>]
HTTPException(code, msg) ==
    [kind |-> "raise", exc |-> "HTTPException", status |-> code, detail |-> msg, value |-> <<>>]

\* the list comprehension of lines 135-138: hrefs of the items that have the anchor
RECURSIVE download_urls(_)
download_urls(items) ==
    IF items = <<>> THEN <<>>
    ELSE IF Head(items).href = NoAnchor THEN download_urls(Tail(items))
    ELSE <<Head(items).href>> \o download_urls(Tail(items))

\* link["href"] raises KeyError for an anchor without href
HrefKeyError(items) == \E i \in 1..Len(items) : items[i].href = NoHref

\* which item lines 130-133 read avatar, username and caption from
first_item_last(items) == items[Len(items)]
first_item(items) == items[1]

\* lines 112-154: the body of the try block once fetch_url has returned the page
parse_page(page) ==
    IF ~page.wrapper
    THEN HTTPException(HTTP_404_NOT_FOUND, "Content not found")
    ELSE IF page.items = <<>>
    THEN HTTPException(HTTP_404_NOT_FOUND, "No downloadable content found")
    ELSE LET first == first_item(page.items) IN
         IF first.avatar = NoProfileDiv THEN Raise("AttributeError")
         ELSE IF first.avatar = NoImg THEN Raise("TypeError")
         ELSE IF first.avatar = NoSrc THEN Raise("KeyError")
         ELSE IF first.username = Missing THEN Raise("AttributeError")
         ELSE IF first.caption = Missing THEN Raise("AttributeError")
         ELSE IF HrefKeyError(page.items) THEN Raise("KeyError")
         ELSE IF download_urls(page.items) = <<>>
         THEN HTTPException(HTTP_404_NOT_FOUND, "No download links available")
         ELSE Return([ok |-> TRUE,
                      message |-> "Content retrieved successfully",
                      avatar |-> first.avatar,
                      caption |-> first.caption,
                      url |-> download_urls(page.items),
                      username |-> first.username])

\* lines 156-161: except Exception catches whatever the try block raised,
\* HTTPException (a subclass of Exception) included
except_Exception_leaky(res) ==
    IF res.kind = "raise"
    THEN HTTPException(HTTP_500_INTERNAL_SERVER_ERROR, res.exc)
    ELSE res
except_Exception(res) ==
    IF res.kind = "raise"
    THEN HTTPException(HTTP_500_INTERNAL_SERVER_ERROR, "Error processing your request")
    ELSE res

\* lines 101-107: the early exit of download_thread
invalid_input == HTTPException(HTTP_400_BAD_REQUEST, "Invalid Threads URL or ID format")

\* the framework's rendering: a returned dict goes through response_model
\* ThreadResponse (status 200), an HTTPException becomes {"detail": ...}
Render(res) ==
    IF res.kind = "return"
    THEN [status |-> HTTP_200_OK, body |-> res.value]
    ELSE [status |-> res.status, body |-> [detail |-> res.detail]]

NoResponse == [status |-> 0, body |-> <<>>]

\* lines 163-165
health_check_probing ==
    IF \E r \in Requests : results[r] # <<>> /\ results[r][Len(results[r])] # "ok"
    THEN [status |-> 503, body |-> [status |-> "degraded", version |-> "1.1.0"]]
    ELSE [status |-> HTTP_200_OK, body |-> [status |-> "ok", version |-> "1.1.0"]]
health_check == [status |-> HTTP_200_OK, body |-> [status |-> "ok", version |-> "1.1.0"]]

----------------------------------------------------------------------------
(* The retry policy of fetch_url (line 65) *)

Max(a, b) == IF a >= b THEN a ELSE b
Min(a, b) == IF a <= b THEN a ELSE b

\* stop_after_attempt(3): no further attempt once attempt_number reaches 3
stop_after_attempt_off(attempt_number) == attempt_number > StopAfterAttempt
stop_after_attempt(attempt_number) == attempt_number >= StopAfterAttempt

\* wait_exponential(multiplier=1, min=4, max=10) after attempt attempt_number
wait_exponential_nomin(attempt_number) ==
    Min(WaitMultiplier * ExpBase ^ (attempt_number - 1), WaitMax)
wait_exponential(attempt_number) ==
    Max(Max(0, WaitMin), Min(WaitMultiplier * ExpBase ^ (attempt_number - 1), WaitMax))

\* response.raise_for_status() and the except clauses of fetch_url: every outcome
\* other than a 2xx answer is re-raised to the retry wrapper
Failed(outcome) == outcome # "ok"

----------------------------------------------------------------------------
(* The outside world *)

\* pieces the callers' inputs are made of
Frags == { HttpPrefix, HttpsPrefix, PostLiteral,
           <<"a","B">>, <<"7","_","-">>, <<" ">>, <<"U+000B","U+3000">>, <<"/">> }

\* the concatenations of at most n fragments
RECURSIVE Concats(_)
Concats(n) ==
    IF n = 0 THEN {<<>>}
    ELSE Concats(n - 1) \cup {s \o f : s \in Concats(n - 1), f \in Frags}

ValidId == <<"a","B">>

Item(a, u, c, h) == [avatar |-> a, username |-> u, caption |-> c, href |-> h]

\* (avatar, username, caption) of an item: two complete ones, and one for
\* each way lines 131-133 can fail
Profiles == { <<"avatar1", "user1", "caption1">>, <<"avatar2", "user2", "caption2">>,
              <<NoProfileDiv, Missing, "caption1">>, <<NoImg, "user1", "caption1">>,
              <<NoSrc, "user1", "caption1">>, <<"avatar1", Missing, "caption1">>,
              <<"avatar1", "user1", Missing>> }

Hrefs == { NoAnchor, NoHref, "link1", "link2" }

Items == { Item(p[1], p[2], p[3], h) : p \in Profiles, h \in Hrefs }

RECURSIVE ItemSeqs(_)
ItemSeqs(n) ==
    IF n = 0 THEN {<<>>}
    ELSE ItemSeqs(n - 1) \cup
         {Append(q, i) : q \in {x \in ItemSeqs(n - 1) : Len(x) = n - 1}, i \in Items}

NoWrapperPage == [wrapper |-> FALSE, items |-> <<>>]

Pages(n) == {NoWrapperPage} \cup {[wrapper |-> TRUE, items |-> q] : q \in ItemSeqs(n)}

GoodPage == [wrapper |-> TRUE, items |-> <<Item("avatar1", "user1", "caption1", "link1")>>]
BrokenPage == [wrapper |-> TRUE, items |-> <<Item(NoImg, "user1", "caption1", "link1")>>]

\* env names the scenario: "concurrent" has every request, few inputs, pages
\* and failures; "fetch" has one request, every page of up to MaxItems items
\* and every kind of failure; "norm" has one request and every input of up to
\* MaxFrags fragments
FetchPages == Pages(MaxItems)
NormInputs == Concats(MaxFrags)

Reqs == IF env = "concurrent" THEN Requests ELSE {1}

Inputs ==
    CASE env = "concurrent" -> {<<>>, ValidId}
      [] env = "fetch" -> {ValidId}
      [] env = "norm" -> NormInputs

UpstreamPages ==
    CASE env = "concurrent" -> {NoWrapperPage, GoodPage, BrokenPage}
      [] env = "fetch" -> FetchPages
      [] env = "norm" -> {GoodPage}

FailureKinds ==
    CASE env = "concurrent" -> {"timeout"}
      [] env = "fetch" -> {"http500", "http503", "reset"}
      [] env = "norm" -> {"http500"}

----------------------------------------------------------------------------
(* The state machine *)

InitWith(e) ==
    /\ env = e
    /\ pc = [r \in Requests |-> "idle"]
    /\ input = [r \in Requests |-> <<>>]
    /\ thread_id = [r \in Requests |-> None]
    /\ client = [r \in Requests |-> 0]
    /\ results = [r \in Requests |-> <<>>]
    /\ waits = [r \in Requests |-> <<>>]
    /\ content = [r \in Requests |-> NoWrapperPage]
    /\ result = [r \in Requests |-> Raise("")]
    /\ response = [r \in Requests |-> NoResponse]
    /\ owner = <<>>
    /\ open = {}
    /\ sent = [r \in Requests |-> <<>>]
    /\ healthResp = NoResponse

Init == InitWith("concurrent")
InitFetch == InitWith("fetch")
InitNorm == InitWith("norm")

\* httpx.AsyncClient(...): the id of the client object line 109 constructs
AsyncClient == Len(owner) + 1

\* async with ... as client, on exit: the clients left open once c is closed
aexit_leak(c) == open
aexit(c) == open \ {c}

\* lines 100-109: the request arrives; the input is normalized and either the
\* 400 is raised or the client is constructed and entered
Start(r, s) ==
    /\ pc[r] = "idle"
    /\ input' = [input EXCEPT ![r] = s]
    /\ thread_id' = [thread_id EXCEPT ![r] = extract_thread_id(s)]
    /\ IF Falsy(extract_thread_id(s))
       THEN /\ result' = [result EXCEPT ![r] = invalid_input]
            /\ pc' = [pc EXCEPT ![r] = "send"]
            /\ UNCHANGED <<client, owner, open>>
       ELSE /\ client' = [client EXCEPT ![r] = AsyncClient]
            /\ owner' = [c \in 1..Max(Len(owner), AsyncClient) |->
                            IF c = AsyncClient THEN r ELSE owner[c]]
            /\ open' = open \cup {AsyncClient}
            /\ pc' = [pc EXCEPT ![r] = "fetch"]
            /\ UNCHANGED result
    /\ UNCHANGED <<env, results, waits, content, response, sent, healthResp>>

\* line 68: one attempt of fetch_url issues the GET through the request's client
Get(r) ==
    /\ pc[r] = "fetch"
    /\ sent' = [sent EXCEPT ![r] = Append(@, client[r])]
    /\ pc' = [pc EXCEPT ![r] = "await"]
    /\ UNCHANGED <<env, input, thread_id, client, results, waits, content, result,
                   response, owner, open, healthResp>>

\* lines 68-70 and 112-161: the upstream answers 2xx with a page; fetch_url
\* returns it and the handler parses it
FetchOk(r, page) ==
    /\ pc[r] = "await"
    /\ results' = [results EXCEPT ![r] = Append(@, "ok")]
    /\ content' = [content EXCEPT ![r] = page]
    /\ result' = [result EXCEPT ![r] = except_Exception(parse_page(page))]
    /\ pc' = [pc EXCEPT ![r] = "exit"]
    /\ UNCHANGED <<env, input, thread_id, client, waits, response, owner, open,
                   sent, healthResp>>

\* lines 65-76 and 156-161: the attempt fails (non-2xx status, network error,
\* timeout); the retry wrapper either sleeps before the next attempt or gives
\* up with RetryError, which the handler's except clause turns into the 500
FetchFail(r, kind) ==
    /\ pc[r] = "await"
    /\ Failed(kind)
    /\ results' = [results EXCEPT ![r] = Append(@, kind)]
    /\ IF stop_after_attempt(Len(results[r]) + 1)
       THEN /\ result' = [result EXCEPT ![r] = except_Exception(Raise("RetryError"))]
            /\ pc' = [pc EXCEPT ![r] = "exit"]
            /\ UNCHANGED waits
       ELSE /\ waits' = [waits EXCEPT ![r] = Append(@, wait_exponential(Len(results[r]) + 1))]
            /\ pc' = [pc EXCEPT ![r] = "sleep"]
            /\ UNCHANGED result
    /\ UNCHANGED <<env, input, thread_id, client, content, response, owner, open,
                   sent, healthResp>>

\* the sleep between two attempts ends
Wake(r) ==
    /\ pc[r] = "sleep"
    /\ pc' = [pc EXCEPT ![r] = "fetch"]
    /\ UNCHANGED <<env, input, thread_id, client, results, waits, content, result,
                   response, owner, open, sent, healthResp>>

\* line 109: leaving the async with block closes the client, whether the block
\* returned or raised
Exit(r) ==
    /\ pc[r] = "exit"
    /\ open' = aexit(client[r])
    /\ pc' = [pc EXCEPT ![r] = "send"]
    /\ UNCHANGED <<env, input, thread_id, client, results, waits, content, result,
                   response, owner, sent, healthResp>>

\* the framework renders what the handler returned or raised and delivers it
Send(r) ==
    /\ pc[r] = "send"
    /\ response' = [response EXCEPT ![r] = Render(result[r])]
    /\ pc' = [pc EXCEPT ![r] = "done"]
    /\ UNCHANGED <<env, input, thread_id, client, results, waits, content, result,
                   owner, open, sent, healthResp>>

\* lines 163-165: a /health request is served
Health ==
    /\ healthResp' = health_check
    /\ UNCHANGED <<env, pc, input, thread_id, client, results, waits, content, result,
                   response, owner, open, sent>>

Next ==
    \/ \E r \in Reqs : pc[r] = "idle" /\ \E s \in Inputs : Start(r, s)
    \/ \E r \in Reqs : Get(r)
    \/ \E r \in Reqs : pc[r] = "await" /\ \E page \in UpstreamPages : FetchOk(r, page)
    \/ \E r \in Reqs : pc[r] = "await" /\ \E kind \in FailureKinds : FetchFail(r, kind)
    \/ \E r \in Reqs : Wake(r)
    \/ \E r \in Reqs : Exit(r)
    \/ \E r \in Reqs : Send(r)
    \/ Health

Spec == Init /\ [][Next]_vars
SpecFetch == InitFetch /\ [][Next]_vars
SpecNorm == InitNorm /\ [][Next]_vars

----------------------------------------------------------------------------
(* Vocabulary of the properties *)

Delivered(r) == pc[r] = "done"
Last(q) == q[Len(q)]
FetchSucceeded(r) == results[r] # <<>> /\ Last(results[r]) = "ok"
AllFailed(q) == \A i \in 1..Len(q) : q[i] # "ok"

ProfileComplete(item) ==
    /\ item.avatar \notin {NoProfileDiv, NoImg, NoSrc}
    /\ item.username # Missing
    /\ item.caption # Missing
HasTarget(item) == item.href \notin {NoAnchor, NoHref}

\* a page with N >= 1 items, each with a download anchor that has a target,
\* the first with avatar, username and caption
WellFormed(page) ==
    /\ page.wrapper
    /\ Len(page.items) >= 1
    /\ ProfileComplete(page.items[1])
    /\ \A i \in 1..Len(page.items) : HasTarget(page.items[i])

GenericError ==
    [status |-> 500, body |-> [detail |-> "Error processing your request"]]

----------------------------------------------------------------------------
(* C1: a request whose fetch succeeded on a page without the download      *)
(* wrapper, or with a wrapper without items, or (first item readable) with *)
(* no item carrying a download anchor, is answered 404 with the specific   *)
(* reason. The code answers 500: the except clause of lines 156-161 also   *)
(* catches the HTTPException(404) raised inside the try block.             *)
C1_NotFoundIs404 ==
    \A r \in Requests :
        (Delivered(r) /\ FetchSucceeded(r)) =>
            LET page == content[r] IN
            /\ ~page.wrapper =>
                  response[r] = [status |-> 404, body |-> [detail |-> "Content not found"]]
            /\ (page.wrapper /\ page.items = <<>>) =>
                  response[r] = [status |-> 404,
                                 body |-> [detail |-> "No downloadable content found"]]
            /\ (/\ page.wrapper
                /\ page.items # <<>>
                /\ ProfileComplete(page.items[1])
                /\ \A i \in 1..Len(page.items) : page.items[i].href = NoAnchor) =>
                  response[r] = [status |-> 404,
                                 body |-> [detail |-> "No download links available"]]

(* C2: for a well-formed page with N >= 1 items the response is 200 with   *)
(* ok = true, url = the N anchor targets in document order, and avatar,    *)
(* caption, username those of the first item, whatever the later items     *)
(* hold.                                                                   *)
C2_WellFormedPage ==
    \A r \in Requests :
        (Delivered(r) /\ FetchSucceeded(r) /\ WellFormed(content[r])) =>
            LET items == content[r].items
                body == response[r].body
            IN  /\ response[r].status = 200
                /\ body.ok = TRUE
                /\ Len(body.url) = Len(items)
                /\ \A i \in 1..Len(items) : body.url[i] = items[i].href
                /\ body.avatar = items[1].avatar
                /\ body.caption = items[1].caption
                /\ body.username = items[1].username

C2_Witness ==
    \E r \in Requests :
        /\ Delivered(r) /\ FetchSucceeded(r) /\ WellFormed(content[r])
        /\ Len(content[r].items) = 2
        /\ content[r].items[2].avatar # content[r].items[1].avatar
        /\ content[r].items[2].href # content[r].items[1].href
        /\ response[r].status = 200

(* C3: when the first two attempts fail and the third succeeds with a      *)
(* well-formed page, the response is 200, exactly 3 GETs were issued, and  *)
(* each of the two waits between attempts lasted between 4 and 10 seconds. *)
C3_RetryThenSuccess ==
    \A r \in Requests :
        (/\ Delivered(r)
         /\ Len(results[r]) = 3
         /\ results[r][1] # "ok" /\ results[r][2] # "ok" /\ results[r][3] = "ok"
         /\ WellFormed(content[r])) =>
            /\ response[r].status = 200
            /\ Len(sent[r]) = 3
            /\ Len(waits[r]) = 2
            /\ \A i \in 1..Len(waits[r]) : waits[r][i] >= 4 /\ waits[r][i] <= 10

C3_Witness ==
    \E r \in Requests :
        /\ Delivered(r)
        /\ results[r] = <<"http500", "reset", "ok">>
        /\ WellFormed(content[r])
        /\ Len(waits[r]) = 2
        /\ response[r].status = 200

(* C4: when all 3 attempts fail the response is 500 with one fixed generic *)
(* body, whatever the failures were, and a structural-read failure in the  *)
(* first item gives the very same response.                                *)
C4_GenericFailure ==
    \A r \in Requests :
        Delivered(r) =>
            /\ (Len(results[r]) = 3 /\ AllFailed(results[r])) => response[r] = GenericError
            /\ (/\ FetchSucceeded(r)
                /\ content[r].wrapper
                /\ content[r].items # <<>>
                /\ ~ProfileComplete(content[r].items[1])) => response[r] = GenericError

C4_Witness ==
    \E r \in Requests :
        /\ Delivered(r)
        /\ results[r] = <<"http500", "http503", "reset">>
        /\ response[r] = GenericError

----------------------------------------------------------------------------
(* The reference normalization of C5, stated without scanning *)

UrlShaped(s) ==
    \/ Len(s) >= 7 /\ \A i \in 1..7 : s[i] = HttpPrefix[i]
    \/ Len(s) >= 8 /\ \A i \in 1..8 : s[i] = HttpsPrefix[i]

\* a /post/<token> segment starts at i: the six literal characters and at
\* least one token character
SegmentAt(s, i) ==
    /\ i + 6 <= Len(s)
    /\ \A k \in 1..6 : s[i + k - 1] = PostLiteral[k]
    /\ s[i + 6] \in TokenChars

HasSegment(s) == \E i \in 1..Len(s) : SegmentAt(s, i)

\* the token of the first segment: from its first character up to the last
\* one before a character outside the token alphabet (or the end)
SegmentToken(s) ==
    LET i == CHOOSE i \in 1..Len(s) :
                 SegmentAt(s, i) /\ \A k \in 1..(i - 1) : ~SegmentAt(s, k)
        e == CHOOSE e \in (i + 6)..Len(s) :
                 /\ \A k \in (i + 6)..e : s[k] \in TokenChars
                 /\ e = Len(s) \/ s[e + 1] \notin TokenChars
    IN  [k \in 1..(e - i - 5) |-> s[i + 5 + k]]

Blank(s) == \A i \in 1..Len(s) : s[i] \in Whitespace

\* s without its leading and trailing whitespace
Trimmed(s) ==
    IF Blank(s) THEN <<>>
    ELSE LET a == CHOOSE a \in 1..Len(s) :
                     s[a] \notin Whitespace /\ \A k \in 1..(a - 1) : s[k] \in Whitespace
             b == CHOOSE b \in 1..Len(s) :
                     s[b] \notin Whitespace /\ \A k \in (b + 1)..Len(s) : s[k] \in Whitespace
         IN  [k \in 1..(b - a + 1) |-> s[a + k - 1]]

Reference(s) ==
    IF Len(s) = 0 THEN None
    ELSE IF UrlShaped(s) THEN (IF HasSegment(s) THEN SegmentToken(s) ELSE None)
    ELSE Trimmed(s)

\* the inputs C6 is about
FailsNormalization(s) ==
    \/ Len(s) = 0
    \/ UrlShaped(s) /\ ~HasSegment(s)
    \/ ~UrlShaped(s) /\ Blank(s)

(* C5: the identifier extract_thread_id computes for a request's input is  *)
(* the reference's: failure for the empty input, the token of the first    *)
(* /post/<token> segment (failure when there is none) for an input that    *)
(* begins with http:// or https://, the trimmed input otherwise.           *)
C5_NormalizationAgrees ==
    \A r \in Requests :
        pc[r] # "idle" => thread_id[r] = Reference(input[r])

C5_Witness ==
    \E r \in Requests :
        /\ pc[r] # "idle"
        /\ input[r] = HttpsPrefix \o PostLiteral \o <<"7","_","-">> \o <<"/">>
        /\ thread_id[r] = <<"7","_","-">>

(* C6: a request whose input fails normalization ends with the 400         *)
(* invalid-format response, constructs no client and issues no GET.        *)
C6_InvalidInput ==
    \A r \in Requests :
        (pc[r] # "idle" /\ FailsNormalization(input[r])) =>
            /\ pc[r] \in {"send", "done"}
            /\ client[r] = 0
            /\ \A c \in 1..Len(owner) : owner[c] # r
            /\ sent[r] = <<>>
            /\ results[r] = <<>>
            /\ Delivered(r) =>
                  response[r] = [status |-> 400,
                                 body |-> [detail |-> "Invalid Threads URL or ID format"]]

C6_Witness ==
    \E r \in Requests :
        /\ Delivered(r)
        /\ input[r] = <<" ", "U+000B", "U+3000">>
        /\ thread_id[r] = <<>>
        /\ response[r].status = 400
        /\ sent[r] = <<>>

(* C7: every delivered /download response has ok = true with a non-empty   *)
(* url sequence, or ok = false with a message and no avatar, caption, url  *)
(* or username. The code's failure bodies are {"detail": ...}: they carry  *)
(* neither ok nor message.                                                 *)
C7_MediaResultShape ==
    \A r \in Requests :
        Delivered(r) =>
            LET body == response[r].body IN
            /\ "ok" \in DOMAIN body
            /\ "message" \in DOMAIN body
            /\ body.ok = TRUE => (response[r].status = 200 /\ body.url # <<>>)
            /\ response[r].status # 200 =>
                  /\ body.ok = FALSE
                  /\ DOMAIN body \cap {"avatar", "caption", "url", "username"} = {}

(* C8: a request issues its GETs only through the client it constructed    *)
(* itself, no client belongs to two requests, the client is open while the *)
(* request uses it, and it is closed before the response is delivered, on  *)
(* every path.                                                             *)
C8_ClientScopedToRequest ==
    \A r \in Requests :
        /\ \A i \in 1..Len(sent[r]) : sent[r][i] = client[r] /\ owner[sent[r][i]] = r
        /\ client[r] # 0 => \A q \in Requests \ {r} : client[q] # client[r]
        /\ pc[r] \in {"fetch", "await", "sleep", "exit"} => client[r] \in open
        /\ pc[r] \in {"send", "done"} =>
              \A c \in 1..Len(owner) : owner[c] = r => c \notin open

C8_Witness ==
    \E r, q \in Requests :
        /\ r # q
        /\ Delivered(r) /\ response[r] = GenericError /\ client[r] # 0
        /\ client[r] \notin open
        /\ pc[q] = "await" /\ client[q] \in open

(* C9: whatever state the /download requests and the upstream are in, a    *)
(* /health request is answered 200 with status "ok" and the version, and   *)
(* opens no client and issues no GET.                                      *)
C9_HealthAlwaysOk ==
    [][healthResp' # healthResp =>
          /\ healthResp' = [status |-> 200, body |-> [status |-> "ok", version |-> "1.1.0"]]
          /\ sent' = sent
          /\ owner' = owner
          /\ open' = open]_vars

C9_Witness ==
    /\ healthResp = [status |-> 200, body |-> [status |-> "ok", version |-> "1.1.0"]]
    /\ \E r, q \in Requests :
          /\ r # q
          /\ pc[r] = "await"
          /\ results[q] = <<"timeout", "timeout", "timeout">>

(* C10: a request issues at most 3 GETs; a GET is issued only as the first *)
(* attempt or after the previous attempt failed, and never once an attempt *)
(* has succeeded, whatever the parse of the page gave.                     *)
C10_RetryOnlyFetchFailures ==
    [][\A r \in Requests :
          /\ Len(sent'[r]) <= 3
          /\ Len(sent'[r]) > Len(sent[r]) =>
                /\ Len(results[r]) = Len(sent[r])
                /\ AllFailed(results[r])]_vars

C10_Witness ==
    \E r \in Requests :
        /\ Delivered(r)
        /\ results[r] = <<"http503", "ok">>
        /\ content[r].wrapper /\ content[r].items # <<>>
        /\ \A i \in 1..Len(content[r].items) : content[r].items[i].href = NoAnchor
        /\ Len(sent[r]) = 2

====
